---- MODULE Spec2Model ----
(***************************************************************************)
(* Landmark-to-label classification pipeline of the gesture-learning       *)
(* backend: normalizeLandmarks, extractFeatures, predictSign               *)
(* (utils/preprocessing) and the prediction routes that call them.         *)
(*                                                                         *)
(* Numbers.  A JavaScript number of the pipeline is a record               *)
(*   [t, a, b, c]:                                                         *)
(*     t = "q"     the finite value a / sqrt(b)        (b >= 1)            *)
(*     t = "sqrt"  the finite value sqrt(a / b)        (a >= 0, b >= 1)    *)
(*     t = "acos"  the finite value acos(clamp(a / sqrt(b * c)))           *)
(*     t = "nan"   NaN                                                     *)
(*     t = "inf"   +Infinity (a = 1) or -Infinity (a = -1)                 *)
(* Raw coordinates are integers on a grid (t = "q", b = 1).  Scores,       *)
(* confidences and thresholds are integers counted in 1/Unit.              *)
(***************************************************************************)
EXTENDS Integers, Sequences, FiniteSets, TLC

VARIABLES store, last, io

vars == <<store, last, io>>

\* ------------------------------------------------------------------ numbers

\* Confidence values are counted in steps of 0.0005, so that 0.01, 0.99 and
\* the halves of every threshold and score on the grid are exact integers.
Unit == 2 * 1000

Q(n, d2) == [t |-> "q", a |-> n, b |-> d2, c |-> 0]
Root(s2, d2) == [t |-> "sqrt", a |-> s2, b |-> d2, c |-> 0]
Acos(dot, m1, m2) == [t |-> "acos", a |-> dot, b |-> m1, c |-> m2]
NaN == [t |-> "nan", a |-> 0, b |-> 0, c |-> 0]
Inf(s) == [t |-> "inf", a |-> s, b |-> 0, c |-> 0]

\* !isNaN(f) && isFinite(f)
IsFiniteNum(v) == v.t \notin {"nan", "inf"}

\* p - w on coordinates with a common denominator
Minus(p, w) ==
  IF p.t = "nan" \/ w.t = "nan" THEN NaN
  ELSE IF p.t = "inf" THEN (IF w.t = "inf" /\ w.a = p.a THEN NaN ELSE p)
  ELSE IF w.t = "inf" THEN Inf(0 - w.a)
  ELSE Q(p.a - w.a, p.b)

\* Math.sqrt(x*x + y*y + z*z) of a point
Magnitude(pt) ==
  IF pt.x.t = "nan" \/ pt.y.t = "nan" \/ pt.z.t = "nan" THEN NaN
  ELSE IF pt.x.t = "inf" \/ pt.y.t = "inf" \/ pt.z.t = "inf" THEN Inf(1)
  ELSE Root(pt.x.a * pt.x.a + pt.y.a * pt.y.a + pt.z.a * pt.z.a, pt.x.b)

\* d > 0 on magnitudes
IsPositive(d) == (d.t = "sqrt" /\ d.a > 0) \/ (d.t = "inf" /\ d.a = 1)

\* v / m for a finite positive magnitude m = sqrt(m.a / m.b) over the same
\* denominator as v: (v.a / sqrt(b)) / sqrt(m.a / b) = v.a / sqrt(m.a)
DivideBy(v, m) ==
  IF v.t = "q" THEN Q(v.a, m.a) ELSE v

\* landmarks[i] with the source's 0-based index
At(landmarks, i) == landmarks[i + 1]

RECURSIVE SumSeq(_)
SumSeq(s) == IF s = <<>> THEN 0 ELSE Head(s) + SumSeq(Tail(s))

\* -------------------------------------------------------------- constants

NumLandmarks == 21

\* ---------------------------------------------------- normalizeLandmarks

MaxOfSet(S) == CHOOSE m \in S : \A n \in S : n <= m

\* Math.max(...distances.filter(d => d > 0))
MaxDistance(distances) ==
  LET pos == {i \in 1..Len(distances) : IsPositive(distances[i])}
  IN  IF pos = {} THEN Inf(-1)
      ELSE IF \E i \in pos : distances[i].t = "inf" THEN Inf(1)
      ELSE Root(MaxOfSet({distances[i].a : i \in pos}),
                distances[CHOOSE i \in pos : TRUE].b)

\* the landmarks as they are, without the move of the wrist to the origin
Untranslated(landmarks) == landmarks

\* landmarks.map(point => point - wrist)
Translated(landmarks) ==
  [i \in 1..Len(landmarks) |->
     [x |-> Minus(landmarks[i].x, landmarks[1].x),
      y |-> Minus(landmarks[i].y, landmarks[1].y),
      z |-> Minus(landmarks[i].z, landmarks[1].z)]]

\* the test of line 37 without its second half
UnscaledZeroOnly(maxDistance) == maxDistance.t = "sqrt" /\ maxDistance.a = 0

\* maxDistance === 0 || !isFinite(maxDistance)
Unscaled(maxDistance) ==
  (maxDistance.t = "sqrt" /\ maxDistance.a = 0) \/ ~IsFiniteNum(maxDistance)

Magnitudes(normalized) == [i \in 1..Len(normalized) |-> Magnitude(normalized[i])]

Scaled(normalized, maxDistance) ==
  IF Unscaled(maxDistance) THEN normalized
  ELSE [i \in 1..Len(normalized) |->
          [x |-> DivideBy(normalized[i].x, maxDistance),
           y |-> DivideBy(normalized[i].y, maxDistance),
           z |-> DivideBy(normalized[i].z, maxDistance)]]

ScaledFrom(normalized) == Scaled(normalized, MaxDistance(Magnitudes(normalized)))

normalizeLandmarks(landmarks) == ScaledFrom(Translated(landmarks))

\* ------------------------------------------------------ euclideanDistance

\* Math.pow(a[i] - b[i], 2), kept as the numerator over the common b
SquaredDiff(a, b) ==
  LET d == Minus(a, b)
  IN  IF d.t = "nan" THEN NaN
      ELSE IF d.t = "inf" THEN Inf(1)
      ELSE Q(d.a * d.a, d.b)

euclideanDistance(a, b) ==
  IF Len(a) # Len(b) THEN Inf(1)
  ELSE LET sq == [i \in 1..Len(a) |-> SquaredDiff(a[i], b[i])]
       IN  IF \E i \in 1..Len(a) : sq[i].t = "nan" THEN NaN
           ELSE IF \E i \in 1..Len(a) : sq[i].t = "inf" THEN Inf(1)
           ELSE IF Len(a) = 0 THEN Root(0, 1)
           ELSE Root(SumSeq([i \in 1..Len(a) |-> sq[i].a]), sq[1].b)

\* --------------------------------------------------------- calculateAngle

\* the division by the magnitudes without the test for zero of line 106
calculateAngleUnguarded(p1, p2, p3) ==
  LET v1 == [x |-> Minus(p1.x, p2.x), y |-> Minus(p1.y, p2.y), z |-> Minus(p1.z, p2.z)]
      v2 == [x |-> Minus(p3.x, p2.x), y |-> Minus(p3.y, p2.y), z |-> Minus(p3.z, p2.z)]
      mag1 == Magnitude(v1)
      mag2 == Magnitude(v2)
      dot == v1.x.a * v2.x.a + v1.y.a * v2.y.a + v1.z.a * v2.z.a
  IN  IF (mag1.t = "sqrt" /\ mag1.a = 0) \/ (mag2.t = "sqrt" /\ mag2.a = 0) THEN NaN
      ELSE IF ~IsFiniteNum(mag1) \/ ~IsFiniteNum(mag2) THEN NaN
      ELSE Acos(dot, mag1.a, mag2.a)

calculateAngle(p1, p2, p3) ==
  LET v1 == [x |-> Minus(p1.x, p2.x), y |-> Minus(p1.y, p2.y), z |-> Minus(p1.z, p2.z)]
      v2 == [x |-> Minus(p3.x, p2.x), y |-> Minus(p3.y, p2.y), z |-> Minus(p3.z, p2.z)]
      mag1 == Magnitude(v1)
      mag2 == Magnitude(v2)
      dot == v1.x.a * v2.x.a + v1.y.a * v2.y.a + v1.z.a * v2.z.a
  IN  IF (mag1.t = "sqrt" /\ mag1.a = 0) \/ (mag2.t = "sqrt" /\ mag2.a = 0) THEN Q(0, 1)
      ELSE IF ~IsFiniteNum(mag1) \/ ~IsFiniteNum(mag2) THEN NaN
      ELSE Acos(dot, mag1.a, mag2.a)

\* -------------------------------------------------------- extractFeatures

fingerTips == <<4, 8, 12, 16, 20>>
\* the thumb measured from landmark 1
fingerBasesFromOne == <<1, 5, 9, 13, 17>>
fingerBases == <<2, 5, 9, 13, 17>>
palmPoints == <<0, 1, 5, 9, 13, 17>>

Coords(p) == <<p.x, p.y, p.z>>

\* landmarks.forEach(point => features.push(point.x, point.y, point.z))
RawCoordinates(landmarks) ==
  [k \in 1..(3 * Len(landmarks)) |->
     Coords(landmarks[((k - 1) \div 3) + 1])[((k - 1) % 3) + 1]]

FingerDistances(landmarks) ==
  [i \in 1..Len(fingerTips) |->
     euclideanDistance(Coords(At(landmarks, fingerTips[i])),
                       Coords(At(landmarks, fingerBases[i])))]

\* the pairs (i, j), i < j, of positions in palmPoints, in loop order
RECURSIVE PalmPairs(_, _)
PalmPairs(i, j) ==
  IF i > Len(palmPoints) THEN <<>>
  ELSE IF j > Len(palmPoints) THEN PalmPairs(i + 1, i + 2)
  ELSE <<(<<i, j>>)>> \o PalmPairs(i, j + 1)

PalmDistances(landmarks) ==
  LET pairs == PalmPairs(1, 2)
  IN  [k \in 1..Len(pairs) |->
         euclideanDistance(Coords(At(landmarks, palmPoints[pairs[k][1]])),
                           Coords(At(landmarks, palmPoints[pairs[k][2]])))]

\* for (i = 1; i < length; i++) if (i + 1 < length) angles.push(...)
JointAngles(landmarks) ==
  LET n == IF Len(landmarks) >= 2 THEN Len(landmarks) - 2 ELSE 0
  IN  [i \in 1..n |->
         calculateAngle(At(landmarks, i - 1), At(landmarks, i), At(landmarks, i + 1))]

\* the source reads landmarks[20]: a shorter array gives undefined, and
\* reading .x of undefined throws a TypeError
ExtractThrows(landmarks) ==
  \E i \in 1..Len(fingerTips) :
     fingerTips[i] >= Len(landmarks) \/ fingerBases[i] >= Len(landmarks)

AllFeatures(landmarks) ==
  RawCoordinates(landmarks) \o FingerDistances(landmarks)
    \o PalmDistances(landmarks) \o JointAngles(landmarks)

\* features.filter(f => !isNaN(f) && isFinite(f))
extractFeatures(landmarks) ==
  SelectSeq(AllFeatures(landmarks), IsFiniteNum)

\* ----------------------------------------------------------------- inputs
\* The landmark arrays the operations are applied to.  A hand is described
\* by its shape (0: all points equal), its length and at most one spoiled
\* coordinate; Hand builds the array.

MaxShape == 2
MaxExtra == 1

Shapes == 0..MaxShape
HandLengths == {0, 5} \cup ((NumLandmarks - 1)..(NumLandmarks + MaxExtra))
SpoiledIndices == {0, 4, NumLandmarks - 1}
SpoiledValues == {NaN, Inf(1), Inf(0 - 1)}

NoSpoil == [i |-> 0 - 1, c |-> "x", v |-> NaN]
Spoils ==
  {NoSpoil} \cup [i : SpoiledIndices, c : {"x"}, v : SpoiledValues]
            \cup [i : {0}, c : {"xyz"}, v : SpoiledValues]

Spoil(p, s) ==
  IF s.c = "xyz" THEN [x |-> s.v, y |-> s.v, z |-> s.v]
  ELSE [p EXCEPT ![s.c] = s.v]

BasePoint(shape, i) ==
  IF shape = 0 THEN [x |-> Q(3, 1), y |-> Q(3, 1), z |-> Q(3, 1)]
  ELSE [x |-> Q(1 + ((i * shape) % 5), 1),
        y |-> Q(2 + (i \div 3), 1),
        z |-> Q((i * i + shape) % 3, 1)]

Hand(d) ==
  [k \in 1..d.len |->
     IF d.spoil.i = k - 1
     THEN Spoil(BasePoint(d.shape, k - 1), d.spoil)
     ELSE BasePoint(d.shape, k - 1)]

\* well-formed descriptors: only a full hand carries a spoiled coordinate
HandDescs ==
  {d \in [shape : Shapes, len : HandLengths, spoil : Spoils] :
     d.spoil = NoSpoil \/ d.len = NumLandmarks}

\* the landmarks argument: an array, or undefined
NoArray == [shape |-> 0, len |-> 0 - 1, spoil |-> NoSpoil]
LandmarksOf(d) ==
  IF d = NoArray THEN [isArray |-> FALSE, pts |-> <<>>]
  ELSE [isArray |-> TRUE, pts |-> Hand(d)]

IsSpoiled(d) == d.spoil # NoSpoil

\* The pipeline applied to the arrays above, computed once per array:
\* Normalized(l) is normalizeLandmarks(l) and Features(l) is
\* extractFeatures(l), read from a table.
Range(f) == {f[x] : x \in DOMAIN f}

NormalizedTable ==
  [l \in {Hand(d) : d \in HandDescs} |-> normalizeLandmarks(l)] @@ <<>>

Normalized(landmarks) == NormalizedTable[landmarks]

FeatureTable ==
  [l \in {n \in Range(NormalizedTable) : ~ExtractThrows(n)} |-> extractFeatures(l)]
    @@ <<>>

Features(landmarks) == FeatureTable[landmarks]

\* ---------------------------------------------------------------- network
\* brain.js is a library: its network is modelled by what predictSign reads
\* of it.  A trained network answers every input of its input size with one
\* score per label; the answer depends on the network and on the input only.
\* A score is an integer in 0..Unit; NaNScore stands for a NaN output.

NaNScore == 0 - 1

\* featureLength of the artifact (63 + 5 + 15 + 19)
FeatureLength ==
  3 * NumLandmarks + Len(fingerTips)
    + ((Len(palmPoints) * (Len(palmPoints) - 1)) \div 2) + (NumLandmarks - 2)

Reverse(row) == [i \in 1..Len(row) |-> row[Len(row) + 1 - i]]

\* the digest of the input that selects the network's answer
FeatureKey(features) ==
  (Cardinality({i \in 1..Len(features) : features[i].a % 2 = 1}) % 2) + 1

Net(labels, row, inputSize) ==
  [corrupt |-> FALSE, labels |-> labels, rows |-> <<row, Reverse(row)>>,
   inputSize |-> inputSize]

\* a stored network that net.fromJSON rejects
CorruptNet == [corrupt |-> TRUE, labels |-> <<>>, rows |-> <<>>, inputSize |-> 0]

\* net.run(features).  On an input of another length than the network's
\* input layer the library version decides: it throws, or it computes with
\* undefined entries (NaN scores), or it reads the entries it needs.
NetRun(net, features, lib) ==
  LET row == net.rows[FeatureKey(features)]
  IN  IF Len(features) = net.inputSize \/ lib = "scores"
      THEN [thrown |-> FALSE, scores |-> row]
      ELSE IF lib = "throw" THEN [thrown |-> TRUE, scores |-> <<>>]
      ELSE [thrown |-> FALSE, scores |-> [i \in 1..Len(row) |-> NaNScore]]

\* ------------------------------------------------------------ predictSign

MinConfidence == Unit \div 100
MaxConfidence == (99 * Unit) \div 100
DefaultThreshold == (7 * Unit) \div 10

Min(a, b) == IF a < b THEN a ELSE b
Max(a, b) == IF a > b THEN a ELSE b

\* a result object; steps lists the calls made on the way to it
Result(sign, confidence, all, labels, steps) ==
  [sign |-> sign, confidence |-> confidence, allPredictions |-> all,
   labels |-> labels, thrown |-> FALSE, steps |-> steps]

\* the exception passed on to the caller
Rethrown(steps) ==
  [Result("ERROR", 0, <<>>, <<>>, steps) EXCEPT !.thrown = TRUE]

\* catch (error) { return { sign: 'ERROR', confidence: 0 } }
Caught(steps) == Result("ERROR", 0, <<>>, <<>>, steps)

\* Object.keys(prediction).forEach(...): the running maximum from label i on
\* the loop of lines 196-201 without its comparison: the last label wins
PickLast(labels, scores, i, acc) ==
  IF Len(labels) = 0 THEN acc
  ELSE [maxConfidence |-> scores[Len(labels)], predictedSign |-> labels[Len(labels)]]

RECURSIVE PickMax(_, _, _, _)
PickMax(labels, scores, i, acc) ==
  IF i > Len(labels) THEN acc
  ELSE IF scores[i] # NaNScore /\ scores[i] > acc.maxConfidence
       THEN PickMax(labels, scores, i + 1,
                    [maxConfidence |-> scores[i], predictedSign |-> labels[i]])
       ELSE PickMax(labels, scores, i + 1, acc)

\* settings.confidenceThreshold || 0.7
EffectiveThreshold(settings) ==
  IF settings.has /\ settings.confidenceThreshold # 0
  THEN settings.confidenceThreshold
  ELSE DefaultThreshold

\* maxConfidence < confidenceThreshold * 0.5
BelowHalf(maxConfidence, confidenceThreshold) ==
  2 * maxConfidence < confidenceThreshold

\* the clamp left out
ClampMissing(c) == c

\* Math.min(0.99, Math.max(0.01, maxConfidence))
Clamp(c) == Min(MaxConfidence, Max(MinConfidence, c))

\* the confidence of an overridden prediction left as it was
NotHalved(maxConfidence) == maxConfidence

\* line 208: maxConfidence *= 0.5
Halved(maxConfidence) == maxConfidence \div 2

\* lines 193-217: from the scores to the returned object
Decide(labels, scores, settings, steps) ==
  LET picked == PickMax(labels, scores, 1,
                        [maxConfidence |-> 0, predictedSign |-> "UNKNOWN"])
      confidenceThreshold == EffectiveThreshold(settings)
      uncertain == BelowHalf(picked.maxConfidence, confidenceThreshold)
      predictedSign == IF uncertain THEN "UNCERTAIN" ELSE picked.predictedSign
      maxConfidence == IF uncertain THEN Halved(picked.maxConfidence)
                       ELSE picked.maxConfidence
  IN  Result(predictedSign, Clamp(maxConfidence), scores, labels, steps)

\* lines 190-217: the forward pass on valid features
RunNetwork(net, run, settings) ==
  IF run.thrown
  THEN Caught({"fromJSON", "normalize", "extract", "run"})
  ELSE Decide(net.labels, run.scores, settings,
              {"fromJSON", "normalize", "extract", "run"})

\* lines 183-191
CheckFeatures(net, features, settings, lib) ==
  IF Len(features) = 0 \/ \E i \in 1..Len(features) : ~IsFiniteNum(features[i])
  THEN Result("INVALID", 0, <<>>, <<>>, {"fromJSON", "normalize", "extract"})
  ELSE RunNetwork(net, NetRun(net, features, lib), settings)

\* line 181
ExtractAndRun(net, normalizedLandmarks, settings, lib) ==
  IF ExtractThrows(normalizedLandmarks)
  THEN Caught({"fromJSON", "normalize", "extract"})
  ELSE CheckFeatures(net, Features(normalizedLandmarks), settings, lib)

\* the guard of line 169 without its second half
predictSignClassifierOnly(model, landmarks, settings, lib) ==
  IF ~model.classifier.present
  THEN Result("UNKNOWN", 0, <<>>, <<>>, {})
  ELSE IF ~model.classifier.hasNetwork \/ model.classifier.network.corrupt
  THEN Caught({"fromJSON"})
  ELSE IF ~landmarks.isArray THEN Caught({"fromJSON", "normalize"})
  ELSE ExtractAndRun(model.classifier.network, Normalized(landmarks.pts),
                     settings, lib)

predictSign(model, landmarks, settings, lib) ==
  IF ~model.classifier.present \/ ~model.classifier.hasNetwork
  THEN Result("UNKNOWN", 0, <<>>, <<>>, {})
  ELSE IF model.classifier.network.corrupt THEN Caught({"fromJSON"})
  ELSE IF ~landmarks.isArray THEN Caught({"fromJSON", "normalize"})
  ELSE ExtractAndRun(model.classifier.network, Normalized(landmarks.pts),
                     settings, lib)

\* ------------------------------------------------------------ input sets

Labels == <<"A", "B">>
ScoreGrid == {0, Unit \div 200, (3 * Unit) \div 10, (45 * Unit) \div 100, Unit}
ScoreRows == {<<a, b>> : a \in ScoreGrid, b \in ScoreGrid}
Networks == {Net(Labels, r, FeatureLength) : r \in ScoreRows}

NoClassifier == [present |-> FALSE, hasNetwork |-> FALSE, network |-> CorruptNet]
Classifier(net) == [present |-> TRUE, hasNetwork |-> TRUE, network |-> net]

\* the model records predictSign is applied to
CoreModels ==
  {[classifier |-> NoClassifier],
   [classifier |-> [present |-> TRUE, hasNetwork |-> FALSE, network |-> CorruptNet]],
   [classifier |-> Classifier(CorruptNet)]}
    \cup {[classifier |-> Classifier(n)] : n \in Networks}

\* settings.confidenceThreshold: absent, or a number
Thresholds == {0, Unit \div 100, (3 * Unit) \div 10, Unit}
NoSettings == [has |-> FALSE, confidenceThreshold |-> 0]
SettingsValues == {NoSettings} \cup [has : {TRUE}, confidenceThreshold : Thresholds]

LibChoices == {"scores", "throw", "nan"}

\* no request is in flight and no write of the model file is under way
Quiet == [truncated |-> FALSE, net |-> CorruptNet, req |-> <<>>]

\* ------------------------------------------------------------- core calls
\* predictSign and extractFeatures are exported functions: the core
\* specification starts from any one input of the bounded sets and applies
\* the function to it once.

\* the library's choice shows only on an input the network was not built for
CoreInputs ==
  {in \in [model : CoreModels, hand : HandDescs \cup {NoArray},
           settings : SettingsValues, lib : LibChoices] :
     /\ (in.hand.len = NumLandmarks /\ ~IsSpoiled(in.hand)) => in.lib = "scores"
     /\ (~in.model.classifier.hasNetwork \/ in.model.classifier.network.corrupt)
          => (in.lib = "scores" /\ in.settings = NoSettings)}

CallPredictSign ==
  /\ last.op = "ready"
  /\ last' = [op |-> "predictSign", in |-> last.in,
              result |-> predictSign(last.in.model, LandmarksOf(last.in.hand),
                                     last.in.settings, last.in.lib)]
  /\ UNCHANGED <<store, io>>

CallExtractFeatures ==
  /\ last.op = "ready"
  /\ last.in.hand.len = NumLandmarks
  /\ last' = [op |-> "extractFeatures", in |-> last.in,
              features |-> Features(Normalized(Hand(last.in.hand)))]
  /\ UNCHANGED <<store, io>>

\* the landmarks scaled by scale.n / scale.d and moved by shift
MaxScale == 3
Scales == {[n |-> k, d |-> 1] : k \in 1..MaxScale} \cup {[n |-> 1, d |-> 2]}
Shifts == {[x |-> 0, y |-> 0, z |-> 0], [x |-> 1, y |-> 0 - 2, z |-> 3]}

Transformed(landmarks, scale, shift) ==
  [i \in 1..Len(landmarks) |->
     [x |-> Q(scale.n * landmarks[i].x.a + scale.d * shift.x, scale.d * scale.d),
      y |-> Q(scale.n * landmarks[i].y.a + scale.d * shift.y, scale.d * scale.d),
      z |-> Q(scale.n * landmarks[i].z.a + scale.d * shift.z, scale.d * scale.d)]]

\* normalizeLandmarks on 21 finite landmarks and on their scaled and moved
\* copy; the function reads neither a model nor settings
CallNormalizeLandmarks ==
  \E scale \in Scales, shift \in Shifts :
    /\ last.op = "ready"
    /\ last.in.hand.len = NumLandmarks
    /\ ~IsSpoiled(last.in.hand)
    /\ ~last.in.model.classifier.present
    /\ last.in.settings = NoSettings
    /\ last' = [op |-> "normalizeLandmarks", in |-> last.in,
                scale |-> scale, shift |-> shift,
                normalized |-> Normalized(Hand(last.in.hand)),
                moved |-> normalizeLandmarks(
                            Transformed(Hand(last.in.hand), scale, shift)),
                divided |-> ~Unscaled(MaxDistance(Magnitudes(
                                        Translated(Hand(last.in.hand)))))]
    /\ UNCHANGED <<store, io>>

InitCore ==
  /\ store = [exists |-> FALSE, classifier |-> NoClassifier]
  /\ last \in {[op |-> "ready", in |-> in] : in \in CoreInputs}
  /\ io = Quiet

\* ------------------------------------------------------------ training

\* [...new Set(labels)]: the distinct labels in order of first occurrence
RECURSIVE UniqueInOrder(_, _)
UniqueInOrder(labels, seen) ==
  IF labels = <<>> THEN seen
  ELSE IF \E i \in 1..Len(seen) : seen[i] = Head(labels)
       THEN UniqueInOrder(Tail(labels), seen)
       ELSE UniqueInOrder(Tail(labels), Append(seen, Head(labels)))

AllFinite(features) == \A i \in 1..Len(features) : IsFiniteNum(features[i])

PushSample(features, sign, rest) ==
  IF AllFinite(features)
  THEN [features |-> <<features>> \o rest.features,
        labels |-> <<sign>> \o rest.labels]
  ELSE rest

\* the body of samples.forEach; a stored sample is [sign, hand], where hand
\* describes its landmarks array
KeepSample(sample, rest) ==
  IF sample.hand.len = NumLandmarks
  THEN PushSample(Features(Normalized(Hand(sample.hand))), sample.sign, rest)
  ELSE rest

RECURSIVE preprocessLandmarks(_)
preprocessLandmarks(samples) ==
  IF samples = <<>> THEN [features |-> <<>>, labels |-> <<>>]
  ELSE KeepSample(Head(samples), preprocessLandmarks(Tail(samples)))

\* preprocessLandmarks on the sample of the input and a sample of another
\* sign with 21 finite landmarks
CallPreprocessLandmarks ==
  /\ last.op = "ready"
  /\ ~last.in.model.classifier.present
  /\ last.in.settings = NoSettings
  /\ last' = [op |-> "preprocessLandmarks", in |-> last.in,
              data |-> preprocessLandmarks(
                         <<[sign |-> "A", hand |-> last.in.hand],
                           [sign |-> "B",
                            hand |-> [shape |-> 1, len |-> NumLandmarks,
                                      spoil |-> NoSpoil]]>>)]
  /\ UNCHANGED <<store, io>>

NextCore ==
  \/ CallPredictSign
  \/ CallExtractFeatures
  \/ CallNormalizeLandmarks
  \/ CallPreprocessLandmarks

SpecCore == InitCore /\ [][NextCore]_vars

\* the label count of line 122 not tested
trainClassifierAnyLabels(data, row) ==
  LET uniqueLabels == UniqueInOrder(data.labels, <<>>)
  IN  IF Len(data.features) = 0 THEN [thrown |-> TRUE, classifier |-> NoClassifier]
      ELSE [thrown |-> FALSE,
            classifier |-> Classifier(Net(uniqueLabels, row, Len(data.features[1])))]

\* trainClassifier: row is the outcome of net.train, which the data and the
\* random initial weights decide
trainClassifier(data, row) ==
  LET uniqueLabels == UniqueInOrder(data.labels, <<>>)
  IN  IF Len(data.features) = 0 THEN [thrown |-> TRUE, classifier |-> NoClassifier]
      ELSE IF Len(uniqueLabels) < 2 THEN [thrown |-> TRUE, classifier |-> NoClassifier]
      ELSE [thrown |-> FALSE,
            classifier |-> Classifier(Net(uniqueLabels, row, Len(data.features[1])))]

\* ----------------------------------------------------------------- routes
\* One model record of ModelStorage.  store.detection is
\* model.settings.detection; last is the latest response of a prediction or
\* training request (or the latest core call).

MaxSamples == 6
MaxBatch == 2
MinSamplesPerSign == 3
MinSamples == 2

NoModel ==
  [exists |-> FALSE, classifier |-> NoClassifier, detection |-> NoSettings,
   samples |-> <<>>]

SuccessLevel == (7 * Unit) \div 10
PartialLevel == (5 * Unit) \div 10
IncorrectLevel == (4 * Unit) \div 10
PracticeThreshold == (6 * Unit) \div 10

\* { ...model.settings?.detection, ...settings }
MergeSettings(detection, settings) ==
  IF settings.has THEN settings ELSE detection

\* { confidenceThreshold: 0.6, ...model.settings?.detection, ...settings }
MergePracticeSettings(detection, settings) ==
  IF settings.has THEN settings
  ELSE IF detection.has THEN detection
  ELSE [has |-> TRUE, confidenceThreshold |-> PracticeThreshold]

\* the success level compared with > for >=
FeedbackStatusStrict(prediction, expectedSign) ==
  IF prediction.sign = expectedSign /\ prediction.confidence > SuccessLevel
  THEN "success"
  ELSE IF prediction.sign = expectedSign /\ prediction.confidence >= PartialLevel
  THEN "partial"
  ELSE IF prediction.confidence >= IncorrectLevel THEN "incorrect"
  ELSE "unclear"

\* the success level read from the model's settings instead of the fixed 0.7
FeedbackStatusBySettings(prediction, expectedSign) ==
  IF prediction.sign = expectedSign
       /\ prediction.confidence >= EffectiveThreshold(store.detection)
  THEN "success"
  ELSE IF prediction.sign = expectedSign /\ prediction.confidence >= PartialLevel
  THEN "partial"
  ELSE IF prediction.confidence >= IncorrectLevel THEN "incorrect"
  ELSE "unclear"

\* lines 192-224 of the practice-predict handler
FeedbackStatus(prediction, expectedSign) ==
  LET isCorrect == prediction.sign = expectedSign
                     /\ prediction.confidence >= SuccessLevel
      isPartiallyCorrect == prediction.sign = expectedSign
                              /\ prediction.confidence >= PartialLevel
  IN  IF isCorrect THEN "success"
      ELSE IF isPartiallyCorrect THEN "partial"
      ELSE IF prediction.confidence >= IncorrectLevel THEN "incorrect"
      ELSE "unclear"

CleanHand(shape) == [shape |-> shape, len |-> NumLandmarks, spoil |-> NoSpoil]

\* the landmark arrays of the requests
RouteHands ==
  {CleanHand(1), CleanHand(2),
   [shape |-> 1, len |-> NumLandmarks, spoil |-> [i |-> 4, c |-> "x", v |-> NaN]],
   [shape |-> 1, len |-> NumLandmarks, spoil |-> [i |-> 0, c |-> "x", v |-> NaN]],
   [shape |-> 1, len |-> NumLandmarks, spoil |-> [i |-> 0, c |-> "xyz", v |-> NaN]],
   [shape |-> 1, len |-> NumLandmarks - 1, spoil |-> NoSpoil],
   [shape |-> 1, len |-> NumLandmarks + 1, spoil |-> NoSpoil]}

RouteSettings ==
  {NoSettings, [has |-> TRUE, confidenceThreshold |-> (3 * Unit) \div 10],
   [has |-> TRUE, confidenceThreshold |-> Unit]}

\* the library's choice shows only on a full array with a spoiled coordinate
LibFor(d) ==
  IF d.len = NumLandmarks /\ IsSpoiled(d) THEN LibChoices ELSE {"scores"}

\* the outcomes of net.train the model lets a training run have
TrainRows ==
  {<<(7 * Unit) \div 10, (55 * Unit) \div 100>>,
   <<(55 * Unit) \div 100, (45 * Unit) \div 100>>,
   <<(45 * Unit) \div 100, Unit \div 200>>,
   <<(3 * Unit) \div 10, 0>>}

Copies(n, x) == [i \in 1..n |-> x]

\* the sample lists of the training requests
TrainBatches ==
  {<<>>,
   Copies(MinSamplesPerSign, [sign |-> "A", hand |-> CleanHand(1)]),
   Copies(MinSamplesPerSign, [sign |-> "B", hand |-> CleanHand(2)]),
   Copies(MinSamplesPerSign,
          [sign |-> "B", hand |-> [shape |-> 1, len |-> NumLandmarks - 1, spoil |-> NoSpoil]])}

\* POST /create
CreateModel ==
  /\ ~store.exists
  /\ store' = [exists |-> TRUE, classifier |-> NoClassifier,
               detection |-> [has |-> TRUE, confidenceThreshold |-> DefaultThreshold],
               samples |-> <<>>]
  /\ last' = [op |-> "create", status |-> 200]
  /\ UNCHANGED io

\* POST /:id/settings with a detection object in the body
UpdateSettings ==
  \E s \in RouteSettings :
    /\ store.exists
    /\ store' = [store EXCEPT !.detection = s]
    /\ UNCHANGED <<last, io>>

\* POST /train
Train ==
  \E samples \in TrainBatches :
    /\ Len(store.samples) + Len(samples) <= MaxSamples
    /\ UNCHANGED io
    /\ IF Len(samples) = 0
       THEN /\ last' = [op |-> "train", status |-> 400]
            /\ UNCHANGED store
       ELSE IF ~store.exists
       THEN /\ last' = [op |-> "train", status |-> 404]
            /\ UNCHANGED store
       ELSE LET allSamples == store.samples \o samples
                signs == {allSamples[i].sign : i \in 1..Len(allSamples)}
                signCounts == [g \in signs |->
                    Cardinality({i \in 1..Len(allSamples) : allSamples[i].sign = g})]
                insufficientSigns == {g \in signs : signCounts[g] < MinSamplesPerSign}
                preprocessedData == preprocessLandmarks(allSamples)
            IN  IF Len(allSamples) < MinSamples \/ insufficientSigns # {}
                THEN /\ store' = [store EXCEPT !.samples = allSamples]
                     /\ last' = [op |-> "train", status |-> 400]
                ELSE \E row \in TrainRows :
                       LET trained == trainClassifier(preprocessedData, row)
                       IN  IF trained.thrown
                           THEN /\ store' = [store EXCEPT !.samples = allSamples]
                                /\ last' = [op |-> "train", status |-> 500]
                           ELSE /\ store' = [store EXCEPT !.samples = allSamples,
                                                  !.classifier = trained.classifier]
                                /\ last' = [op |-> "train", status |-> 200]

\* POST /predict
Predict ==
  \E d \in RouteHands \cup {NoArray}, s \in RouteSettings, lib \in LibChoices :
    /\ lib \in LibFor(d)
    /\ UNCHANGED <<store, io>>
    /\ IF d = NoArray \/ d.len # NumLandmarks
       THEN last' = [op |-> "predict", status |-> 400]
       ELSE IF ~store.exists THEN last' = [op |-> "predict", status |-> 404]
       ELSE IF ~store.classifier.present THEN last' = [op |-> "predict", status |-> 400]
       ELSE LET modelSettings == MergeSettings(store.detection, s)
                prediction == predictSign(store, LandmarksOf(d), modelSettings, lib)
            IN  last' = [op |-> "predict", status |-> 200,
                         prediction |-> prediction.sign,
                         confidence |-> prediction.confidence,
                         steps |-> prediction.steps]

\* POST /practice-predict
PracticePredict ==
  \E d \in RouteHands \cup {NoArray}, expectedSign \in {"", "A", "B", "UNCERTAIN"},
     s \in RouteSettings, lib \in LibChoices :
    /\ lib \in LibFor(d)
    /\ UNCHANGED <<store, io>>
    /\ IF d = NoArray \/ d.len # NumLandmarks \/ expectedSign = ""
       THEN last' = [op |-> "practice-predict", status |-> 400]
       ELSE IF ~store.exists THEN last' = [op |-> "practice-predict", status |-> 404]
       ELSE IF ~store.classifier.present
       THEN last' = [op |-> "practice-predict", status |-> 400]
       ELSE LET modelSettings == MergePracticeSettings(store.detection, s)
                prediction == predictSign(store, LandmarksOf(d), modelSettings, lib)
            IN  last' = [op |-> "practice-predict", status |-> 200,
                         prediction |-> prediction.sign,
                         confidence |-> prediction.confidence,
                         expectedSign |-> expectedSign,
                         threshold |-> modelSettings.confidenceThreshold,
                         feedback |-> FeedbackStatus(prediction, expectedSign),
                         steps |-> prediction.steps]

\* POST /batch-predict: one entry of the answer per landmarks array
BatchEntry(model, d, modelSettings, lib) ==
  IF d.len # NumLandmarks
  THEN [error |-> TRUE, sign |-> "", confidence |-> 0, steps |-> {}]
  ELSE LET prediction == predictSign(model, LandmarksOf(d), modelSettings, lib)
       IN  [error |-> FALSE, sign |-> prediction.sign,
            confidence |-> prediction.confidence, steps |-> prediction.steps]

BatchHands ==
  {CleanHand(1), [shape |-> 1, len |-> NumLandmarks - 1, spoil |-> NoSpoil]}

BatchLists ==
  UNION {[1..n -> BatchHands] : n \in 0..MaxBatch}

BatchPredict ==
  \E landmarksList \in BatchLists, s \in RouteSettings :
    /\ UNCHANGED <<store, io>>
    /\ IF ~store.exists THEN last' = [op |-> "batch-predict", status |-> 404]
       ELSE IF ~store.classifier.present
       THEN last' = [op |-> "batch-predict", status |-> 400]
       ELSE LET modelSettings == MergeSettings(store.detection, s)
            IN  last' = [op |-> "batch-predict", status |-> 200,
                         predictions |->
                           [k \in 1..Len(landmarksList) |->
                              BatchEntry(store, landmarksList[k], modelSettings, "scores")]]

Init ==
  /\ store = NoModel
  /\ last = [op |-> "none", status |-> 0]
  /\ io = Quiet

Next ==
  \/ CreateModel
  \/ UpdateSettings
  \/ Train
  \/ Predict
  \/ PracticePredict
  \/ BatchPredict

Spec == Init /\ [][Next]_vars

\* ----------------------------------------------------------------- server
\* Requests in flight on one model file.  Every await of a handler is a
\* point where the other requests run.  store is the content of the file as
\* last written in full; io.truncated holds from the moment an fs.writeFile
\* has opened the file (flag 'w' empties it) until its data is written.
\* io.req[r] is the position of request r with the values it holds, and
\* io.net is the brain.NeuralNetwork instance built last.

Predictors == {"p1", "p2"}
Writers == {"train", "settings"}

ServerHands == {CleanHand(1), CleanHand(2)}
ServerSettings == {[has |-> TRUE, confidenceThreshold |-> (3 * Unit) \div 10]}
ServerBatch == Copies(MinSamplesPerSign, [sign |-> "B", hand |-> CleanHand(2)])
StoredRow == <<(55 * Unit) \div 100, (45 * Unit) \div 100>>
ServerRows ==
  {<<(7 * Unit) \div 10, (55 * Unit) \div 100>>,
   <<(45 * Unit) \div 100, Unit \div 200>>}

\* the model file when the requests arrive: samples of one sign and no
\* classifier yet, or samples of two signs and the classifier trained on them
ServerModels ==
  LET first == Copies(MinSamplesPerSign, [sign |-> "A", hand |-> CleanHand(1)])
      detection == [has |-> TRUE, confidenceThreshold |-> DefaultThreshold]
  IN  {[exists |-> TRUE, classifier |-> NoClassifier, detection |-> detection,
        samples |-> first],
       [exists |-> TRUE,
        classifier |-> Classifier(Net(Labels, StoredRow, FeatureLength)),
        detection |-> detection, samples |-> first \o ServerBatch]}

\* ModelStorage.getModel: readFile and JSON.parse; a file that is not
\* written in full does not parse, and the catch returns null
getModel == IF io.truncated THEN NoModel ELSE store

\* one network instance for every call, whatever was built before
NetworkInstanceShared(model, built) ==
  IF built = CorruptNet THEN model.classifier.network ELSE built

\* const net = new brain.NeuralNetwork(); net.fromJSON(model.classifier.network)
NetworkInstance(model, built) == model.classifier.network

\* POST /train up to addSamplesToModel's updateModel
TrainAddSamples ==
  /\ io.req["train"].pc = "idle"
  /\ UNCHANGED store
  /\ LET model == getModel
     IN  IF ~model.exists
         THEN /\ io' = [io EXCEPT !.req["train"] = [pc |-> "done"]]
              /\ last' = [op |-> "train", status |-> 404]
         ELSE /\ io' = [io EXCEPT !.req["train"] =
                         [pc |-> "ready", then |-> "stored",
                          record |-> [model EXCEPT
                                        !.samples = model.samples \o ServerBatch]]]
              /\ UNCHANGED last

\* POST /train from the second getModel to the updateModel of the classifier
TrainRun ==
  /\ io.req["train"].pc = "stored"
  /\ UNCHANGED store
  /\ LET updatedModel == getModel
         allSamples == updatedModel.samples
         signs == {allSamples[i].sign : i \in 1..Len(allSamples)}
         insufficientSigns ==
           {g \in signs :
              Cardinality({i \in 1..Len(allSamples) : allSamples[i].sign = g})
                < MinSamplesPerSign}
     IN  IF ~updatedModel.exists
         THEN /\ io' = [io EXCEPT !.req["train"] = [pc |-> "done"]]
              /\ last' = [op |-> "train", status |-> 500]
         ELSE IF Len(allSamples) < MinSamples \/ insufficientSigns # {}
         THEN /\ io' = [io EXCEPT !.req["train"] = [pc |-> "done"]]
              /\ last' = [op |-> "train", status |-> 400]
         ELSE \E row \in ServerRows :
                LET trained == trainClassifier(preprocessLandmarks(allSamples), row)
                IN  IF trained.thrown
                    THEN /\ io' = [io EXCEPT !.req["train"] = [pc |-> "done"]]
                         /\ last' = [op |-> "train", status |-> 500]
                    ELSE /\ io' = [io EXCEPT !.req["train"] =
                                    [pc |-> "ready", then |-> "done",
                                     record |-> [updatedModel EXCEPT
                                        !.classifier = trained.classifier]]]
                         /\ UNCHANGED last

\* POST /:id/settings up to updateModel's read
SettingsRead ==
  /\ io.req["settings"].pc = "idle"
  /\ UNCHANGED <<store, last>>
  /\ LET model == getModel
     IN  IF ~model.exists
         THEN io' = [io EXCEPT !.req["settings"] = [pc |-> "done"]]
         ELSE \E s \in ServerSettings :
                io' = [io EXCEPT !.req["settings"] =
                         [pc |-> "ready", then |-> "done",
                          record |-> [model EXCEPT !.detection = s]]]

\* fs.writeFile opens the file for writing, which empties it
WriteOpen ==
  \E w \in Writers :
    /\ io.req[w].pc = "ready"
    /\ io' = [io EXCEPT !.truncated = TRUE, !.req[w].pc = "writing"]
    /\ UNCHANGED <<store, last>>

\* fs.writeFile writes the record and the handler goes on
WriteData ==
  \E w \in Writers :
    /\ io.req[w].pc = "writing"
    /\ store' = io.req[w].record
    /\ io' = [io EXCEPT !.truncated = FALSE,
                         !.req[w] = [pc |-> io.req[w].then]]
    /\ IF w = "train" /\ io.req[w].then = "done"
       THEN last' = [op |-> "train", status |-> 200]
       ELSE UNCHANGED last

\* POST /predict up to getModel
PredictRead ==
  \E p \in Predictors, d \in ServerHands :
    /\ io.req[p].pc = "idle"
    /\ io' = [io EXCEPT !.req[p] = [pc |-> "loaded", hand |-> d, model |-> getModel]]
    /\ UNCHANGED <<store, last>>

\* POST /predict from the answer of getModel to the response
PredictAnswer ==
  \E p \in Predictors :
    /\ io.req[p].pc = "loaded"
    /\ UNCHANGED store
    /\ LET model == io.req[p].model
           answered == [pc |-> "answered", hand |-> io.req[p].hand, model |-> model]
       IN  IF ~model.exists
           THEN /\ io' = [io EXCEPT !.req[p] = answered @@ [status |-> 404]]
                /\ last' = [op |-> "predict", status |-> 404]
           ELSE IF ~model.classifier.present
           THEN /\ io' = [io EXCEPT !.req[p] = answered @@ [status |-> 400]]
                /\ last' = [op |-> "predict", status |-> 400]
           ELSE LET net == NetworkInstance(model, io.net)
                    prediction ==
                      predictSign([model EXCEPT !.classifier.network = net],
                                  LandmarksOf(io.req[p].hand),
                                  MergeSettings(model.detection, NoSettings), "scores")
                IN  /\ io' = [io EXCEPT
                                !.net = net,
                                !.req[p] = answered @@
                                  [status |-> 200, sign |-> prediction.sign,
                                   confidence |-> prediction.confidence]]
                    /\ last' = [op |-> "predict", status |-> 200,
                                prediction |-> prediction.sign,
                                confidence |-> prediction.confidence,
                                steps |-> prediction.steps]

InitServer ==
  /\ store \in ServerModels
  /\ last = [op |-> "none", status |-> 0]
  /\ io = [truncated |-> FALSE, net |-> CorruptNet,
           req |-> [r \in Predictors \cup Writers |-> [pc |-> "idle"]]]

NextServer ==
  \/ TrainAddSamples
  \/ TrainRun
  \/ SettingsRead
  \/ WriteOpen
  \/ WriteData
  \/ PredictRead
  \/ PredictAnswer

SpecServer == InitServer /\ [][NextServer]_vars

\* --------------------------------------------------------------- sessions
\* One session file and the requests in flight on it.  store is the session
\* record in the file (predictions holds the confidences of the entries),
\* io.req[r] is the position of request r.  The times (startTime, endTime,
\* sessionDuration) and avgConfidence are left out of the record.

MaxPredictions == 2
HighConfidence == (7 * Unit) \div 10
SessionConfidences == {(5 * Unit) \div 10, (9 * Unit) \div 10}
PredictionRequests == {"n1", "n2"}
SessionRequests == PredictionRequests \cup {"end"}

NoSession ==
  [exists |-> FALSE, predictions |-> <<>>,
   stats |-> [totalPredictions |-> 0, highConfidencePredictions |-> 0],
   completed |-> FALSE]

\* SessionStorage.getSession
getSession == store

\* POST /start
StartSession ==
  /\ ~store.exists
  /\ store' = [NoSession EXCEPT !.exists = TRUE]
  /\ last' = [op |-> "start", status |-> 200]
  /\ UNCHANGED io

\* POST /:sessionId/prediction up to the call of updateSession
PredictionRead ==
  \E r \in PredictionRequests, confidence \in SessionConfidences :
    /\ io.req[r].pc = "idle"
    /\ Len(store.predictions) < MaxPredictions
    /\ UNCHANGED store
    /\ LET session == getSession
           updatedPredictions == Append(session.predictions, confidence)
       IN  IF ~session.exists
           THEN /\ last' = [op |-> "prediction", status |-> 404]
                /\ UNCHANGED io
           ELSE /\ io' = [io EXCEPT !.req[r] =
                           [pc |-> "update",
                            predictions |-> updatedPredictions,
                            stats |->
                              [totalPredictions |-> Len(updatedPredictions),
                               highConfidencePredictions |->
                                 Cardinality({i \in 1..Len(updatedPredictions) :
                                    updatedPredictions[i] >= HighConfidence})]]]
                /\ UNCHANGED last

\* updateSession of a prediction request: getSession and the merge
PredictionMerge ==
  \E r \in PredictionRequests :
    /\ io.req[r].pc = "update"
    /\ io' = [io EXCEPT !.req[r] =
                [pc |-> "write",
                 record |-> [getSession EXCEPT
                               !.predictions = io.req[r].predictions,
                               !.stats = io.req[r].stats]]]
    /\ UNCHANGED <<store, last>>

\* POST /:sessionId/end up to the call of updateSession
EndRead ==
  /\ io.req["end"].pc = "idle"
  /\ UNCHANGED store
  /\ LET session == getSession
     IN  IF ~session.exists
         THEN /\ last' = [op |-> "end", status |-> 404]
              /\ UNCHANGED io
         ELSE /\ io' = [io EXCEPT !.req["end"] =
                         [pc |-> "update", stats |-> session.stats]]
              /\ UNCHANGED last

\* updateSession of the end request: getSession and the merge
EndMerge ==
  /\ io.req["end"].pc = "update"
  /\ io' = [io EXCEPT !.req["end"] =
              [pc |-> "write",
               record |-> [getSession EXCEPT
                             !.stats = io.req["end"].stats,
                             !.completed = TRUE]]]
  /\ UNCHANGED <<store, last>>

\* updateSession: fs.writeFile of the merged record, and the response
SessionWrite ==
  \E r \in SessionRequests :
    /\ io.req[r].pc = "write"
    /\ store' = io.req[r].record
    /\ io' = [io EXCEPT !.req[r] = [pc |-> "idle"]]
    /\ last' = [op |-> IF r = "end" THEN "end" ELSE "prediction", status |-> 200]

InitSession ==
  /\ store = NoSession
  /\ last = [op |-> "none", status |-> 0]
  /\ io = [truncated |-> FALSE, net |-> CorruptNet,
           req |-> [r \in SessionRequests |-> [pc |-> "idle"]]]

NextSession ==
  \/ StartSession
  \/ PredictionRead
  \/ PredictionMerge
  \/ EndRead
  \/ EndMerge
  \/ SessionWrite

SpecSession == InitSession /\ [][NextSession]_vars

\* ----------------------------------------------------------- MediaPipeHandler
\* store is the handler (hands non-null or null, stream and animationId by
\* the number of the initialize call they come from, 0 for null, and the
\* srcObject of the video element); io.req[c] is call c of initialize: its
\* position, the state of the camera track it was granted and the state of
\* the frame loop it started.  io.stopped: stop() was called after the
\* latest initialize().

MaxInitialize == 2
InitializeCalls == 1..MaxInitialize

NoHandler == [hands |-> FALSE, stream |-> 0, animationId |-> 0, srcObject |-> 0]

\* processFrame up to its first await or its end
processFrame(c, ready) ==
  IF store.hands /\ ready
  THEN /\ io' = [io EXCEPT !.req[c].frame = "sending"]
       /\ UNCHANGED store
  ELSE IF store.hands
  THEN /\ io' = [io EXCEPT !.req[c].frame = "scheduled"]
       /\ store' = [store EXCEPT !.animationId = c]
  ELSE /\ io' = [io EXCEPT !.req[c].frame = "idle"]
       /\ UNCHANGED store

\* initialize up to the await of getUserMedia in startCamera
Initialize ==
  /\ io.calls < MaxInitialize
  /\ store' = [store EXCEPT !.hands = TRUE]
  /\ io' = [io EXCEPT !.calls = io.calls + 1,
                      !.stopped = FALSE,
                      !.req[io.calls + 1].pc = "getUserMedia"]
  /\ UNCHANGED last

\* getUserMedia resolves: lines 59-96
CameraGranted ==
  \E c \in InitializeCalls :
    /\ io.req[c].pc = "getUserMedia"
    /\ store' = [store EXCEPT !.stream = c, !.srcObject = c]
    /\ io' = [io EXCEPT !.req[c].pc = "metadata", !.req[c].track = "live"]
    /\ UNCHANGED last

\* getUserMedia rejects: lines 98-101 and 47-50
CameraDenied ==
  \E c \in InitializeCalls :
    /\ io.req[c].pc = "getUserMedia"
    /\ io' = [io EXCEPT !.req[c].pc = "returned"]
    /\ last' = [op |-> "initialize", call |-> c, result |-> FALSE]
    /\ UNCHANGED store

\* onloadedmetadata: lines 75-81
LoadedMetadata ==
  \E c \in InitializeCalls :
    /\ io.req[c].pc = "metadata"
    /\ store.srcObject = c
    /\ UNCHANGED store
    /\ IF ~store.hands
       THEN /\ io' = [io EXCEPT !.req[c].pc = "returned"]
            /\ last' = [op |-> "initialize", call |-> c, result |-> FALSE]
       ELSE /\ io' = [io EXCEPT !.req[c].pc = "play"]
            /\ UNCHANGED last

\* play() resolves: lines 81-89, startProcessing, and initialize returns
PlayResolved ==
  \E c \in InitializeCalls, ready \in BOOLEAN :
    /\ io.req[c].pc = "play"
    /\ LET started == [io EXCEPT !.req[c].pc = "returned"]
       IN  IF store.hands /\ ready
           THEN /\ io' = [started EXCEPT !.req[c].frame = "sending"]
                /\ UNCHANGED store
           ELSE IF store.hands
           THEN /\ io' = [started EXCEPT !.req[c].frame = "scheduled"]
                /\ store' = [store EXCEPT !.animationId = c]
           ELSE /\ io' = started
                /\ UNCHANGED store
    /\ last' = [op |-> "initialize", call |-> c, result |-> TRUE]

\* play() rejects: line 90 and lines 47-50
PlayRejected ==
  \E c \in InitializeCalls :
    /\ io.req[c].pc = "play"
    /\ io' = [io EXCEPT !.req[c].pc = "returned"]
    /\ last' = [op |-> "initialize", call |-> c, result |-> FALSE]
    /\ UNCHANGED store

\* hands.send settles: lines 108-116
SendSettled ==
  \E c \in InitializeCalls :
    /\ io.req[c].frame = "sending"
    /\ processFrame(c, FALSE)
    /\ UNCHANGED last

\* the animation frame requested at line 115 fires
FrameFires ==
  \E c \in InitializeCalls, ready \in BOOLEAN :
    /\ io.req[c].frame = "scheduled"
    /\ processFrame(c, ready)
    /\ UNCHANGED last

\* stop()
Stop ==
  /\ store' = NoHandler
  /\ io' = [io EXCEPT
       !.stopped = TRUE,
       !.req = [c \in InitializeCalls |->
                 [io.req[c] EXCEPT
                    !.frame = IF store.animationId = c /\ @ = "scheduled"
                              THEN "idle" ELSE @,
                    !.track = IF store.stream = c THEN "stopped" ELSE @]]]
  /\ last' = [op |-> "stop", call |-> 0, result |-> TRUE]

InitHandler ==
  /\ store = NoHandler
  /\ last = [op |-> "none", call |-> 0, result |-> TRUE]
  /\ io = [calls |-> 0, stopped |-> FALSE,
           req |-> [c \in InitializeCalls |->
                     [pc |-> "idle", track |-> "none", frame |-> "idle"]]]

NextHandler ==
  \/ Initialize
  \/ CameraGranted
  \/ CameraDenied
  \/ LoadedMetadata
  \/ PlayResolved
  \/ PlayRejected
  \/ SendSettled
  \/ FrameFires
  \/ Stop

SpecHandler == InitHandler /\ [][NextHandler]_vars

\* ---------------------------------------------------------- learning progress
\* store is the progress file of one model together with the number of signs
\* of the model (model.signs.length).  practiceAttempts is kept in halves, so
\* that the attempts field of a request can be 0.5; practiceAccuracy is the
\* fraction n / d.  The requests on sign "A" take every action; sign "Z" is
\* a sign the model does not have, practised correctly.

MaxViews == 1
MaxIncorrect == 1
AttemptUnit == 2
ProgressSigns == {"A", "Z"}
ModelSigns == <<"A">>

\* the levels of mastery: 5 correct answers, 5 attempts, 80 percent; the
\* counters of correct answers and of attempts are followed up to them
MasteryCorrect == 5
MasteryAttempts == 5
MasteryAccuracy == 80
AttemptsFields == {0, 1, 2 * AttemptUnit}

\* the bodies of the requests: attempts is the field in halves, 0 also
\* standing for a body without the field
ProgressRequests ==
  [sign : {"A"},
   action : {"view", "quiz", "study", "practice_start", "practice_attempt"},
   correct : BOOLEAN, attempts : {0}]
  \cup [sign : {"A"}, action : {"practice_complete"},
        correct : BOOLEAN, attempts : AttemptsFields]
  \cup [sign : {"Z"}, action : {"practice_attempt", "practice_complete"},
        correct : {TRUE}, attempts : {0}]

\* lines 385-396: the entry of a sign not studied before
NewSignProgress ==
  [studied |-> FALSE, viewed |-> 0, correct |-> 0, incorrect |-> 0,
   mastered |-> FALSE, studyTime |-> 0, practiceAttempts |-> 0,
   practiceSuccess |-> 0, practiceAccuracy |-> [n |-> 0, d |-> 1]]

\* lines 429-431 and 441-443
Accuracy(practiceSuccess, practiceAttempts) ==
  IF practiceAttempts > 0
  THEN [n |-> 100 * AttemptUnit * practiceSuccess, d |-> practiceAttempts]
  ELSE [n |-> 0, d |-> 1]

\* Math.round of completedSigns / signs * 100
RoundedPercent(completedSigns, signs) ==
  (2 * 100 * completedSigns + signs) \div (2 * signs)

\* LearningStorage.updateProgress
updateProgress(sign, signProgress) ==
  LET merged == [store.signProgress EXCEPT ![sign] = signProgress]
      completedSigns ==
        Cardinality({g \in ProgressSigns : merged[g].studied /\ merged[g].mastered})
  IN  store' = [store EXCEPT
                  !.signProgress = merged,
                  !.completedSigns = completedSigns,
                  !.totalProgress = RoundedPercent(completedSigns, store.signs)]

\* lines 383-398: the entry the handler works on
SignProgress(sign) == [store.signProgress[sign] EXCEPT !.studied = TRUE]

\* case 'view'
View ==
  \E r \in ProgressRequests :
    /\ r.action = "view"
    /\ store.signProgress[r.sign].viewed < MaxViews
    /\ updateProgress(r.sign, [SignProgress(r.sign) EXCEPT !.viewed = @ + 1])
    /\ last' = [op |-> r.action, sign |-> r.sign]
    /\ UNCHANGED io

\* case 'quiz'
Quiz ==
  \E r \in ProgressRequests :
    /\ r.action = "quiz"
    /\ IF r.correct THEN store.signProgress[r.sign].correct < MasteryCorrect
                    ELSE store.signProgress[r.sign].incorrect < MaxIncorrect
    /\ LET signProgress == SignProgress(r.sign)
       IN  updateProgress(r.sign,
             IF r.correct
             THEN [signProgress EXCEPT
                     !.correct = @ + 1,
                     !.mastered =
                        IF signProgress.correct + 1 >= MasteryCorrect
                           /\ signProgress.correct + 1 > signProgress.incorrect * 2
                        THEN TRUE ELSE @]
             ELSE [signProgress EXCEPT !.incorrect = @ + 1, !.mastered = FALSE])
    /\ last' = [op |-> r.action, sign |-> r.sign]
    /\ UNCHANGED io

\* case 'study', without a time field
Study ==
  \E r \in ProgressRequests :
    /\ r.action = "study"
    /\ store.signProgress[r.sign].studyTime < 30 * MaxViews
    /\ updateProgress(r.sign, [SignProgress(r.sign) EXCEPT !.studyTime = @ + 30])
    /\ last' = [op |-> r.action, sign |-> r.sign]
    /\ UNCHANGED io

\* case 'practice_start'
PracticeStart ==
  \E r \in ProgressRequests :
    /\ r.action = "practice_start"
    /\ updateProgress(r.sign, SignProgress(r.sign))
    /\ last' = [op |-> r.action, sign |-> r.sign]
    /\ UNCHANGED io

\* case 'practice_complete'
PracticeComplete ==
  \E r \in ProgressRequests :
    /\ r.action = "practice_complete"
    /\ LET signProgress == SignProgress(r.sign)
           practiceAttempts == signProgress.practiceAttempts +
                                 (IF r.attempts = 0 THEN AttemptUnit ELSE r.attempts)
           practiceSuccess == signProgress.practiceSuccess +
                                 (IF r.correct THEN 1 ELSE 0)
           practiceAccuracy == Accuracy(practiceSuccess, practiceAttempts)
       IN  /\ practiceAttempts <= MasteryAttempts * AttemptUnit
           /\ updateProgress(r.sign,
                [signProgress EXCEPT
                   !.practiceAttempts = practiceAttempts,
                   !.practiceSuccess = practiceSuccess,
                   !.practiceAccuracy = practiceAccuracy,
                   !.mastered =
                      IF practiceAccuracy.n >= MasteryAccuracy * practiceAccuracy.d
                         /\ practiceAttempts >= MasteryAttempts * AttemptUnit
                      THEN TRUE ELSE @])
    /\ last' = [op |-> r.action, sign |-> r.sign]
    /\ UNCHANGED io

\* case 'practice_attempt'
PracticeAttempt ==
  \E r \in ProgressRequests :
    /\ r.action = "practice_attempt"
    /\ LET signProgress == SignProgress(r.sign)
           practiceAttempts == signProgress.practiceAttempts + AttemptUnit
           practiceSuccess == signProgress.practiceSuccess +
                                 (IF r.correct THEN 1 ELSE 0)
       IN  /\ practiceAttempts <= MasteryAttempts * AttemptUnit
           /\ updateProgress(r.sign,
                [signProgress EXCEPT
                   !.practiceAttempts = practiceAttempts,
                   !.practiceSuccess = practiceSuccess,
                   !.practiceAccuracy = Accuracy(practiceSuccess, practiceAttempts)])
    /\ last' = [op |-> r.action, sign |-> r.sign]
    /\ UNCHANGED io

InitLearning ==
  /\ store = [signs |-> Len(ModelSigns),
              signProgress |-> [g \in ProgressSigns |-> NewSignProgress],
              completedSigns |-> 0, totalProgress |-> 0]
  /\ last = [op |-> "none", sign |-> ""]
  /\ io = Quiet

NextLearning ==
  \/ View
  \/ Quiz
  \/ Study
  \/ PracticeStart
  \/ PracticeComplete
  \/ PracticeAttempt

SpecLearning == InitLearning /\ [][NextLearning]_vars

\* ------------------------------------------------------------- calculator
\* store is calcState of the sign-language calculator; last is the latest
\* call of processPrediction or resetCalculator.

Digits == {"0", "2"}
DigitValue == [d \in Digits |-> IF d = "0" THEN 0 ELSE 2]
Operators == {"+", "-", "*", "/"}
CalcPredictions == Digits \cup {"", "+", "-", "/", "clear", "equal", "A"}

EmptyCalc ==
  [num1 |-> "", operator |-> "", num2 |-> "", result |-> "", activeBlock |-> "num1"]

\* !isNaN(Number(prediction)): Number("") is 0
IsNumeric(prediction) == prediction \in Digits \cup {""}

\* safeEvaluateExpression on num1, operator and num2 joined
safeEvaluateExpression(num1, operator, num2) ==
  LET a == DigitValue[num1]
      b == DigitValue[num2]
  IN  CASE operator = "+" -> ToString(a + b)
        [] operator = "-" -> ToString(a - b)
        [] operator = "*" -> ToString(a * b)
        [] operator = "/" -> IF b = 0 THEN "Error" ELSE ToString(a \div b)

\* an operator sign entered in any block once num1 is set
OperatorAcceptedAnywhere(prev) == prev.num1 # ""

\* line 187: prev.num1 && prev.activeBlock === "operator"
OperatorAccepted(prev) == prev.num1 # "" /\ prev.activeBlock = "operator"

\* lines 164-184: a numeric prediction.  num1 is empty in block num1 and
\* num2 in block num2, so that prev.num1 + prediction is the prediction.
EnterDigit(prev, prediction) ==
  IF prev.activeBlock = "num1"
  THEN [prev EXCEPT !.num1 = IF prediction = "" THEN @ ELSE prediction,
                    !.activeBlock = "operator"]
  ELSE IF prev.activeBlock = "num2"
  THEN IF prev.num1 # "" /\ prev.operator # "" /\ prediction # ""
       THEN [prev EXCEPT
               !.num2 = prediction,
               !.result = safeEvaluateExpression(prev.num1, prev.operator, prediction),
               !.activeBlock = "complete"]
       ELSE [prev EXCEPT !.activeBlock = "complete"]
  ELSE prev

\* lines 193-207: the prediction "equal"
EnterEqual(prev) ==
  IF prev.num1 # "" /\ prev.operator # "" /\ prev.num2 # ""
  THEN LET safe == safeEvaluateExpression(prev.num1, prev.operator, prev.num2)
       IN  IF safe = "Error" THEN [prev EXCEPT !.result = "Error"]
           ELSE [prev EXCEPT !.result = safe, !.activeBlock = "complete"]
  ELSE prev

\* the updater of processPrediction
NextCalcState(prev, prediction) ==
  IF prediction = "clear" THEN EmptyCalc
  ELSE IF IsNumeric(prediction) THEN EnterDigit(prev, prediction)
  ELSE IF prediction \in Operators
  THEN IF OperatorAccepted(prev)
       THEN [prev EXCEPT !.operator = prediction, !.activeBlock = "num2"]
       ELSE prev
  ELSE IF prediction = "equal" THEN EnterEqual(prev)
  ELSE prev

ProcessPrediction ==
  \E prediction \in CalcPredictions :
    /\ store' = NextCalcState(store, prediction)
    /\ last' = [op |-> "processPrediction", prediction |-> prediction]
    /\ UNCHANGED io

ResetCalculator ==
  /\ store' = EmptyCalc
  /\ last' = [op |-> "resetCalculator", prediction |-> ""]
  /\ UNCHANGED io

InitCalculator ==
  /\ store = EmptyCalc
  /\ last = [op |-> "none", prediction |-> ""]
  /\ io = Quiet

NextCalculator ==
  \/ ProcessPrediction
  \/ ResetCalculator

SpecCalculator == InitCalculator /\ [][NextCalculator]_vars

\* --------------------------------------------------------- SettingsManager
\* store is the manager with its surroundings: settings, the entry
\* 'signflow-settings' of localStorage (persisted, "" when absent) and
\* whether the appearance classes are on the document (styled).  io.listeners
\* is the array of listeners; a listener is a number, and listener 2 throws
\* when called.  last is the latest call with the values it started from.

MaxListeners == 2
ListenerIds == {1, 2}
ListenerThrows(listener) == listener = 2

EmptySettings == [kind |-> "object", appearance |-> FALSE, audio |-> FALSE]
NullSettings == [kind |-> "null", appearance |-> FALSE, audio |-> FALSE]
SettingsObjects == [kind : {"object"}, appearance : BOOLEAN, audio : BOOLEAN]

\* JSON.stringify(this.settings)
Stringify(settings) ==
  IF settings.kind = "null" THEN "null"
  ELSE IF settings.appearance /\ settings.audio THEN "{appearance,audio}"
  ELSE IF settings.appearance THEN "{appearance}"
  ELSE IF settings.audio THEN "{audio}"
  ELSE "{}"

SettingsTexts == {Stringify(v) : v \in SettingsObjects \cup {NullSettings}}
ImportTexts == SettingsTexts \cup {"{oops"}

\* JSON.parse: the text of a value gives the value, any other text throws
ParseThrows(text) == text \notin SettingsTexts
Parse(text) ==
  CHOOSE v \in SettingsObjects \cup {NullSettings} : Stringify(v) = text

\* applyStoredSettings reads this.settings.appearance
ApplyThrows(settings) == settings.kind = "null"
Applied(settings, styled) == styled \/ settings.appearance

\* notifyListeners: the calls made, up to the first listener that throws
RECURSIVE NotifyFrom(_, _, _)
NotifyFrom(listeners, i, calls) ==
  IF i > Len(listeners) THEN [calls |-> calls, thrown |-> FALSE]
  ELSE IF ListenerThrows(listeners[i])
  THEN [calls |-> Append(calls, listeners[i]), thrown |-> TRUE]
  ELSE NotifyFrom(listeners, i + 1, Append(calls, listeners[i]))

notifyListeners == NotifyFrom(io.listeners, 1, <<>>)

Call(op, result, input, calls) ==
  [op |-> op, result |-> result, input |-> input, calls |-> calls,
   settings |-> store.settings, persisted |-> store.persisted,
   listeners |-> io.listeners]

\* import: this.settings = imported; this.save()
importAssign(imported) ==
  [store EXCEPT !.settings = imported, !.persisted = Stringify(imported)]

\* import(settingsJson)
Import ==
  \E settingsJson \in ImportTexts :
    /\ UNCHANGED io
    /\ IF ParseThrows(settingsJson)
       THEN /\ UNCHANGED store
            /\ last' = Call("import", FALSE, settingsJson, <<>>)
       ELSE LET imported == Parse(settingsJson)
                assigned == importAssign(imported)
                notified == notifyListeners
            IN  IF ApplyThrows(imported)
                THEN /\ store' = assigned
                     /\ last' = Call("import", FALSE, settingsJson, <<>>)
                ELSE /\ store' = [assigned EXCEPT
                                    !.styled = Applied(imported, store.styled)]
                     /\ last' = Call("import", ~notified.thrown, settingsJson,
                                     notified.calls)

\* applySettings(settings)
ApplySettings ==
  \E settings \in SettingsObjects :
    LET merged == [kind |-> "object",
                   appearance |-> store.settings.appearance \/ settings.appearance,
                   audio |-> store.settings.audio \/ settings.audio]
        notified == notifyListeners
    IN  /\ store' = [settings |-> merged, persisted |-> Stringify(merged),
                     styled |-> Applied(merged, store.styled)]
        /\ last' = Call("applySettings", ~notified.thrown, Stringify(settings),
                        notified.calls)
        /\ UNCHANGED io

\* set('audio', {}): throws on settings that are null
SetAudio ==
  /\ UNCHANGED io
  /\ IF store.settings.kind = "null"
     THEN /\ UNCHANGED store
          /\ last' = Call("set", FALSE, "audio", <<>>)
     ELSE LET changed == [store.settings EXCEPT !.audio = TRUE]
              notified == notifyListeners
          IN  /\ store' = [settings |-> changed, persisted |-> Stringify(changed),
                           styled |-> IF notified.thrown THEN store.styled
                                      ELSE Applied(changed, store.styled)]
              /\ last' = Call("set", ~notified.thrown, "audio", notified.calls)

\* reset()
Reset ==
  LET notified == notifyListeners
  IN  /\ store' = [settings |-> EmptySettings, persisted |-> "", styled |-> FALSE]
      /\ last' = Call("reset", ~notified.thrown, "", notified.calls)
      /\ UNCHANGED io

\* the timer of setupAutoSave calls save()
AutoSave ==
  /\ store' = [store EXCEPT !.persisted = Stringify(store.settings)]
  /\ last' = Call("save", TRUE, "", <<>>)
  /\ UNCHANGED io

\* subscribe(listener)
Subscribe ==
  \E listener \in ListenerIds :
    /\ Len(io.listeners) < MaxListeners
    /\ io' = [io EXCEPT !.listeners = Append(@, listener)]
    /\ last' = Call("subscribe", TRUE, "", <<>>)
    /\ UNCHANGED store

\* the function subscribe returned: the first entry of the listener goes
Unsubscribe ==
  \E listener \in ListenerIds :
    /\ \E i \in 1..Len(io.listeners) : io.listeners[i] = listener
    /\ LET index == CHOOSE i \in 1..Len(io.listeners) :
                      /\ io.listeners[i] = listener
                      /\ \A j \in 1..(i - 1) : io.listeners[j] # listener
       IN  io' = [io EXCEPT !.listeners =
                    SubSeq(@, 1, index - 1) \o SubSeq(@, index + 1, Len(@))]
    /\ last' = Call("unsubscribe", TRUE, "", <<>>)
    /\ UNCHANGED store

InitSettings ==
  /\ store = [settings |-> EmptySettings, persisted |-> "", styled |-> FALSE]
  /\ last = [op |-> "none", result |-> TRUE, input |-> "", calls |-> <<>>,
             settings |-> EmptySettings, persisted |-> "", listeners |-> <<>>]
  /\ io = [listeners |-> <<>>]

NextSettings ==
  \/ Import
  \/ ApplySettings
  \/ SetAudio
  \/ Reset
  \/ AutoSave
  \/ Subscribe
  \/ Unsubscribe

SpecSettings == InitSettings /\ [][NextSettings]_vars

\* ================================================================= claims

Sentinels == {"UNKNOWN", "INVALID", "ERROR"}

PredictSignReturned == last.op = "predictSign"

\* the call ran the forward pass and returned through line 213
ReturnedScores ==
  /\ PredictSignReturned
  /\ "run" \in last.result.steps
  /\ last.result.sign # "ERROR"

InRange(c) == MinConfidence <= c /\ c <= MaxConfidence

\* C1 as stated: on every return path of predictSign, whatever the artifact
\* and the landmarks, the confidence lies in [0.01, 0.99].
C1_EveryPathInRange ==
  PredictSignReturned => InRange(last.result.confidence)

\* C1 amended: the return that follows a forward pass carries a confidence
\* in [0.01, 0.99]; every other return is one of the sentinels UNKNOWN,
\* INVALID, ERROR with confidence exactly 0.
C1_ConfidenceBounds ==
  PredictSignReturned =>
    IF ReturnedScores
    THEN InRange(last.result.confidence)
    ELSE last.result.sign \in Sentinels /\ last.result.confidence = 0

\* a raw score of 1 comes back as 0.99
C1_Witness ==
  /\ ReturnedScores
  /\ \E i \in 1..Len(last.result.allPredictions) :
        last.result.allPredictions[i] = Unit
  /\ last.result.sign \in {"A", "B"}
  /\ last.result.confidence = MaxConfidence

\* a practice-predict request answered with a feedback object
PracticeAnswered == last.op = "practice-predict" /\ last.status = 200

SameSign == last.prediction = last.expectedSign

\* C2: the status is success exactly when predicted = expected and
\* confidence >= 0.7, and partial exactly when predicted = expected and
\* 0.5 <= confidence < 0.7.
C2_SuccessPartial ==
  PracticeAnswered =>
    /\ (last.feedback = "success")
          <=> (SameSign /\ last.confidence >= (7 * Unit) \div 10)
    /\ (last.feedback = "partial")
          <=> (SameSign /\ last.confidence >= (5 * Unit) \div 10
                        /\ last.confidence < (7 * Unit) \div 10)

\* the expected sign recognised with confidence exactly 0.7
C2_Witness ==
  /\ PracticeAnswered
  /\ SameSign
  /\ last.confidence = (7 * Unit) \div 10
  /\ last.feedback = "success"

\* C3: an input classified neither success nor partial is a mismatch
\* (status incorrect) exactly when predicted # expected and confidence >= 0.4,
\* and unclear in every other case.
C3_MismatchUnclear ==
  (PracticeAnswered /\ last.feedback \notin {"success", "partial"}) =>
    IF ~SameSign /\ last.confidence >= (4 * Unit) \div 10
    THEN last.feedback = "incorrect"
    ELSE last.feedback = "unclear"

\* the conditions of the four categories as the handler evaluates them
CategoryHolds(category) ==
  CASE category = "success" ->
         SameSign /\ last.confidence >= (7 * Unit) \div 10
    [] category = "partial" ->
         SameSign /\ last.confidence >= (5 * Unit) \div 10
                  /\ last.confidence < (7 * Unit) \div 10
    [] category = "incorrect" ->
         last.confidence >= (4 * Unit) \div 10
           /\ ~(SameSign /\ last.confidence >= (5 * Unit) \div 10)
    [] category = "unclear" ->
         last.confidence < (4 * Unit) \div 10

Categories == {"success", "partial", "incorrect", "unclear"}

\* C4: the feedback decision is total and pure: every answer carries one of
\* the four categories, exactly one category's condition on (predicted,
\* expected, confidence) holds, and the status is that category, whatever the
\* stored model and the settings are.
C4_PureTotal ==
  PracticeAnswered =>
    /\ last.feedback \in Categories
    /\ Cardinality({c \in Categories : CategoryHolds(c)}) = 1
    /\ CategoryHolds(last.feedback)

\* the same sign at 0.55 is partial under a stored threshold below 0.55
C4_Witness ==
  /\ PracticeAnswered
  /\ store.detection.has
  /\ store.detection.confidenceThreshold = (3 * Unit) \div 10
  /\ SameSign
  /\ last.confidence = (55 * Unit) \div 100
  /\ last.feedback = "partial"

\* --- predictSign on its inputs

TrainedInput ==
  /\ last.in.model.classifier.present
  /\ last.in.model.classifier.hasNetwork
  /\ ~last.in.model.classifier.network.corrupt

MaxRaw(scores) == MaxOfSet({scores[i] : i \in 1..Len(scores)})

\* the label the scores select: one with the maximum score, or the initial
\* UNKNOWN when no score is above 0
SelectedLabels(labels, scores) ==
  IF MaxRaw(scores) = 0 THEN {"UNKNOWN"}
  ELSE {labels[i] : i \in {j \in 1..Len(scores) : scores[j] = MaxRaw(scores)}}

\* C5: for every supplied threshold t and maximum raw score m: if m < t / 2
\* the result is UNCERTAIN with confidence clamp(m / 2), otherwise the
\* selected label with confidence clamp(m).
C5_HalfThreshold ==
  (/\ ReturnedScores
   /\ last.in.settings.has
   /\ \A i \in 1..Len(last.result.allPredictions) :
         last.result.allPredictions[i] # NaNScore) =>
    LET m == MaxRaw(last.result.allPredictions)
        t == last.in.settings.confidenceThreshold
    IN  IF 2 * m < t
        THEN /\ last.result.sign = "UNCERTAIN"
             /\ last.result.confidence = Clamp(m \div 2)
        ELSE /\ last.result.sign
                  \in SelectedLabels(last.result.labels, last.result.allPredictions)
             /\ last.result.confidence = Clamp(m)

\* C6: a spoiled (NaN or infinite) coordinate makes the result of
\* extractFeatures invalid to its callers: it is empty or shows a non-finite
\* entry, and is never a shorter vector of finite entries.
C6_NonFiniteInvalid ==
  (last.op = "extractFeatures" /\ IsSpoiled(last.in.hand)) =>
    \/ Len(last.features) = 0
    \/ \E i \in 1..Len(last.features) : ~IsFiniteNum(last.features[i])

\* C7: landmarks with a non-finite feature make predictSign return INVALID
\* with confidence 0 without a forward pass.
C7_InvalidNoForwardPass ==
  (/\ PredictSignReturned
   /\ TrainedInput
   /\ last.in.hand.len = NumLandmarks
   /\ IsSpoiled(last.in.hand)) =>
    /\ last.result.sign = "INVALID"
    /\ last.result.confidence = 0
    /\ "run" \notin last.result.steps

\* C8: a landmarks array of another length than 21 is rejected as INVALID
\* and reaches neither feature extraction nor the network.
C8_WrongLengthRejected ==
  (/\ PredictSignReturned
   /\ TrainedInput
   /\ last.in.hand # NoArray
   /\ last.in.hand.len # NumLandmarks) =>
    /\ last.result.sign = "INVALID"
    /\ last.result.steps \cap {"extract", "run"} = {}

\* an exception is raised inside the try block: by net.fromJSON, by
\* normalizeLandmarks, by extractFeatures or by net.run
ExceptionRaised ==
  /\ last.in.model.classifier.present
  /\ last.in.model.classifier.hasNetwork
  /\ \/ last.in.model.classifier.network.corrupt
     \/ last.in.hand = NoArray
     \/ last.in.hand.len < NumLandmarks
     \/ /\ last.in.lib = "throw"
        /\ Len(Features(Normalized(Hand(last.in.hand)))) # 0
        /\ Len(Features(Normalized(Hand(last.in.hand))))
             # last.in.model.classifier.network.inputSize

\* C9: predictSign never throws; an exception raised while rebuilding the
\* network, normalizing, extracting or running becomes {ERROR, 0}.
C9_NeverThrows ==
  PredictSignReturned =>
    /\ ~last.result.thrown
    /\ ExceptionRaised =>
          (last.result.sign = "ERROR" /\ last.result.confidence = 0)

\* net.run threw on the features and the caller got the ERROR object
C9_Witness ==
  /\ PredictSignReturned
  /\ ExceptionRaised
  /\ "run" \in last.result.steps
  /\ last.result.sign = "ERROR"
  /\ ~last.result.thrown

\* C10: without a classifier, or with a classifier that has no network,
\* predictSign returns {UNKNOWN, 0} and calls nothing.
C10_Untrained ==
  (/\ PredictSignReturned
   /\ \/ ~last.in.model.classifier.present
      \/ ~last.in.model.classifier.hasNetwork) =>
    /\ last.result.sign = "UNKNOWN"
    /\ last.result.confidence = 0
    /\ last.result.steps = {}
    /\ last.result.allPredictions = <<>>

\* a classifier without network state, asked about a full clean hand
C10_Witness ==
  /\ PredictSignReturned
  /\ last.in.model.classifier.present
  /\ ~last.in.model.classifier.hasNetwork
  /\ last.in.hand.len = NumLandmarks
  /\ ~IsSpoiled(last.in.hand)
  /\ last.result.sign = "UNKNOWN"

\* --- training

\* the preprocessed list of the samples is empty or names fewer than 2 labels
Insufficient(samples) ==
  LET data == preprocessLandmarks(samples)
  IN  \/ Len(data.features) = 0
      \/ Cardinality({data.labels[i] : i \in 1..Len(data.labels)}) < 2

\* C11: a training request whose preprocessed samples are empty or carry
\* fewer than 2 distinct labels fails, and the stored classifier stays as it
\* was: none is created and none is replaced.
C11_NoArtifact ==
  [][(last'.op = "train" /\ Insufficient(store'.samples)) =>
       (last'.status # 200 /\ store'.classifier = store.classifier)]_vars

\* trainClassifier threw on stored samples of a single usable label
C11_Witness ==
  /\ last.op = "train"
  /\ last.status = 500
  /\ Len(store.samples) >= MinSamplesPerSign
  /\ Insufficient(store.samples)
  /\ ~store.classifier.present

\* --- requests in flight

\* C12: a prediction request that reads the model record while a training
\* run writes it gets a complete record, the old or the new one, and never
\* the answer that the model does not exist.
C12_AtomicReplace ==
  \A p \in Predictors :
    io.req[p].pc \in {"loaded", "answered"} => io.req[p].model.exists

\* request p has its prediction
Answered(p) == io.req[p].pc = "answered" /\ io.req[p].status = 200

\* the call of request p run alone on the record the request has read
Alone(p) ==
  predictSign(io.req[p].model, LandmarksOf(io.req[p].hand),
              MergeSettings(io.req[p].model.detection, NoSettings), "scores")

SameAnswer(p, q) ==
  /\ io.req[p].sign = io.req[q].sign
  /\ io.req[p].confidence = io.req[q].confidence

\* C13: whatever the requests in flight do in between, a prediction returns
\* the sign and the confidence of the same call run alone, two calls with the
\* same artifact, landmarks and settings return the same, and the call
\* leaves the file and the record it was given as they were.
C13_Reentrant ==
  /\ [](\A p \in Predictors :
          Answered(p) =>
            /\ io.req[p].sign = Alone(p).sign
            /\ io.req[p].confidence = Alone(p).confidence)
  /\ [](\A p, q \in Predictors :
          (/\ Answered(p) /\ Answered(q)
           /\ io.req[p].model.classifier = io.req[q].model.classifier
           /\ io.req[p].model.detection = io.req[q].model.detection
           /\ io.req[p].hand = io.req[q].hand) => SameAnswer(p, q))
  /\ [][\A p \in Predictors :
          (io.req[p].pc = "loaded" /\ io'.req[p].pc = "answered") =>
            (store' = store /\ io'.req[p].model = io.req[p].model)]_vars

\* two predictions on the same artifact and landmarks, answered after the
\* training run has replaced the classifier in the file
C13_Witness ==
  /\ Answered("p1") /\ Answered("p2")
  /\ io.req["p1"].model = io.req["p2"].model
  /\ io.req["p1"].hand = io.req["p2"].hand
  /\ io.req["train"].pc = "done"
  /\ store.classifier # io.req["p1"].model.classifier

\* --- features and normalization

\* C14: 21 landmarks with finite coordinates, coinciding points included,
\* give exactly 102 features: 63 coordinates, then 5 fingertip distances and
\* 15 palm distances, then 19 joint angles.
C14_FixedLength ==
  (last.op = "extractFeatures" /\ ~IsSpoiled(last.in.hand)) =>
    /\ Len(last.features) = FeatureLength
    /\ FeatureLength = 3 * NumLandmarks + Len(fingerTips) + 15 + (NumLandmarks - 2)
    /\ \A k \in 1..Len(last.features) :
         IF k <= 3 * NumLandmarks THEN last.features[k].t = "q"
         ELSE IF k <= 3 * NumLandmarks + Len(fingerTips) + 15
         THEN last.features[k].t = "sqrt"
         ELSE last.features[k].t \in {"acos", "q"}

\* the features of 21 landmarks that are all the same point
C14_Witness ==
  /\ last.op = "extractFeatures"
  /\ last.in.hand.shape = 0
  /\ ~IsSpoiled(last.in.hand)
  /\ Len(last.features) = FeatureLength

NormalizeReturned == last.op = "normalizeLandmarks"

IsOrigin(pt) ==
  /\ pt.x.t = "q" /\ pt.x.a = 0
  /\ pt.y.t = "q" /\ pt.y.a = 0
  /\ pt.z.t = "q" /\ pt.z.a = 0

\* C15: 21 identical landmarks come back as 21 points (0,0,0), through the
\* early return, where nothing is divided by the scale.
C15_Degenerate ==
  (NormalizeReturned /\ last.in.hand.shape = 0) =>
    /\ ~last.divided
    /\ Len(last.normalized) = NumLandmarks
    /\ \A i \in 1..Len(last.normalized) : IsOrigin(last.normalized[i])

C15_Witness ==
  /\ NormalizeReturned
  /\ last.in.hand.shape = 0
  /\ ~last.divided
  /\ IsOrigin(last.normalized[NumLandmarks])

\* u = v for the finite values a / sqrt(b)
NumEq(u, v) ==
  /\ u.t = "q" /\ v.t = "q"
  /\ (u.a > 0) = (v.a > 0)
  /\ (u.a < 0) = (v.a < 0)
  /\ u.a * u.a * v.b = v.a * v.a * u.b

PointEq(p, q) == NumEq(p.x, q.x) /\ NumEq(p.y, q.y) /\ NumEq(p.z, q.z)

\* the square of the distance of pt from the origin is 1, or at most 1
AtDistanceOne(pt) ==
  pt.x.a * pt.x.a + pt.y.a * pt.y.a + pt.z.a * pt.z.a = pt.x.b
WithinDistanceOne(pt) ==
  pt.x.a * pt.x.a + pt.y.a * pt.y.a + pt.z.a * pt.z.a <= pt.x.b

\* C16: for landmarks that are not all the same point, normalizeLandmarks
\* of the landmarks scaled by a positive factor and moved equals
\* normalizeLandmarks of the landmarks: the wrist is the origin and the
\* farthest landmark is at distance 1.
C16_ScaleTranslation ==
  (NormalizeReturned /\ last.in.hand.shape # 0) =>
    /\ last.divided
    /\ \A i \in 1..NumLandmarks : PointEq(last.moved[i], last.normalized[i])
    /\ IsOrigin(last.moved[1]) /\ IsOrigin(last.normalized[1])
    /\ \A i \in 1..NumLandmarks : WithinDistanceOne(last.moved[i])
    /\ \E i \in 1..NumLandmarks : AtDistanceOne(last.moved[i])
    /\ \E i \in 1..NumLandmarks : AtDistanceOne(last.normalized[i])

\* a hand scaled and moved: other numerators and denominators, same values
C16_Witness ==
  /\ NormalizeReturned
  /\ last.in.hand.shape # 0
  /\ last.scale.n > 1
  /\ last.shift.x # 0
  /\ last.moved # last.normalized
  /\ \A i \in 1..NumLandmarks : PointEq(last.moved[i], last.normalized[i])

\* --- training data

\* C17: preprocessing keeps a sample only if it has 21 landmarks with finite
\* coordinates; any other sample adds no feature vector and no label, and
\* every feature vector kept has length 102.
C17_KeepsOnlyFinite ==
  last.op = "preprocessLandmarks" =>
    /\ \A k \in 1..Len(last.data.features) :
         Len(last.data.features[k]) = FeatureLength
    /\ Len(last.data.features) = Len(last.data.labels)
    /\ IF last.in.hand.len = NumLandmarks /\ ~IsSpoiled(last.in.hand)
       THEN last.data.labels = <<"A", "B">>
       ELSE last.data.labels = <<"B">>

\* the place of a label in the sorted order of the labels
LabelRank(label) == CHOOSE i \in 1..Len(Labels) : Labels[i] = label

\* C18: after a training run the label list of the stored artifact is sorted
\* and free of duplicates and holds exactly the labels of the samples the
\* run used, in whatever order the samples were stored.
C18_SortedLabels ==
  (last.op = "train" /\ last.status = 200) =>
    LET labels == store.classifier.network.labels
        data == preprocessLandmarks(store.samples)
    IN  /\ \A i, j \in 1..Len(labels) :
             i < j => LabelRank(labels[i]) < LabelRank(labels[j])
        /\ {labels[i] : i \in 1..Len(labels)}
             = {data.labels[i] : i \in 1..Len(data.labels)}

\* --- the selected label

TrainedOn(classifier, samples) ==
  \E row \in TrainRows \cup ServerRows :
    LET trained == trainClassifier(preprocessLandmarks(samples), row)
    IN  ~trained.thrown /\ classifier = trained.classifier

\* C20: the stored classifier changes only in a training run that succeeds,
\* and then to the artifact trained on all stored samples; prediction and
\* settings requests leave it as it is.
C20_OnlyTraining ==
  [][store'.classifier # store.classifier =>
       /\ last'.op = "train"
       /\ last'.status = 200
       /\ TrainedOn(store'.classifier, store'.samples)]_vars

\* --- the layout of the feature vector

\* the pairs of the layout, as landmark indices
TipBasePairs == <<(<<4, 2>>), (<<8, 5>>), (<<12, 9>>), (<<16, 13>>), (<<20, 17>>)>>
PalmAnchorPairs ==
  <<(<<0, 1>>), (<<0, 5>>), (<<0, 9>>), (<<0, 13>>), (<<0, 17>>),
    (<<1, 5>>), (<<1, 9>>), (<<1, 13>>), (<<1, 17>>),
    (<<5, 9>>), (<<5, 13>>), (<<5, 17>>),
    (<<9, 13>>), (<<9, 17>>), (<<13, 17>>)>>

PairDistance(landmarks, pair) ==
  euclideanDistance(Coords(At(landmarks, pair[1])), Coords(At(landmarks, pair[2])))

\* entry k (from 0) of the layout for normalized landmarks n
LayoutEntry(n, k) ==
  IF k <= 62 THEN Coords(At(n, k \div 3))[(k % 3) + 1]
  ELSE IF k <= 67 THEN PairDistance(n, TipBasePairs[k - 62])
  ELSE IF k <= 82 THEN PairDistance(n, PalmAnchorPairs[k - 67])
  ELSE calculateAngle(At(n, k - 83), At(n, k - 82), At(n, k - 81))

\* C21: entries 0..62 are x, y, z of landmarks 0..20; 63..67 the distances
\* of the pairs (4,2), (8,5), (12,9), (16,13), (20,17); 68..82 the distances
\* of the pairs of palm anchors in increasing (i,j) order; 83..101 the
\* angles at vertex i between landmarks i-1 and i+1, i = 1..19.
C21_Layout ==
  (last.op = "extractFeatures" /\ ~IsSpoiled(last.in.hand)) =>
    /\ Len(last.features) = 102
    /\ \A k \in 0..101 :
         last.features[k + 1] = LayoutEntry(Normalized(Hand(last.in.hand)), k)

\* the features of a hand whose points differ
C21_Witness ==
  /\ last.op = "extractFeatures"
  /\ ~IsSpoiled(last.in.hand)
  /\ last.in.hand.shape = 1
  /\ Len(last.features) = 102
  /\ last.features[64] # last.features[65]

\* --- failed training requests

\* C22: a /train request answered 400 or 500 leaves the stored samples and
\* the stored classifier as they were before the request.
C22_FailedTrainNoChange ==
  [][(last'.op = "train" /\ last'.status \in {400, 500}) =>
       (store'.samples = store.samples /\ store'.classifier = store.classifier)]_vars

\* C23: a classifier stored by a training run stays in the file until the
\* next training run writes its own, whatever the other callers of
\* updateModel do in between.
C23_ClassifierStays ==
  [][(store.classifier.present /\ store'.classifier # store.classifier) =>
       (io.req["train"].pc = "writing" /\ io'.req["train"].pc = "done")]_vars

\* --- sessions

\* C24: in every stored state of a session, whatever the order in which
\* the prediction and end requests take their steps, totalPredictions is
\* the number of stored predictions and highConfidencePredictions the number
\* of those with confidence >= 0.7.
C24_StatsMatch ==
  store.exists =>
    /\ store.stats.totalPredictions = Len(store.predictions)
    /\ store.stats.highConfidencePredictions =
         Cardinality({i \in 1..Len(store.predictions) :
                        store.predictions[i] >= HighConfidence})

\* --- practice feedback on predictions without a sign

\* C25: under a confidence threshold in (0, 1], a practice prediction that
\* predictSign returned as UNKNOWN, INVALID or ERROR, or overrode to
\* UNCERTAIN, has feedback status unclear, whatever the expected sign.
C25_NoSignUnclear ==
  (/\ PracticeAnswered
   /\ last.threshold > 0
   /\ last.threshold <= Unit
   /\ last.prediction \in Sentinels \cup {"UNCERTAIN"}) =>
    last.feedback = "unclear"

\* a best score of 0.45 overridden under threshold 1, UNCERTAIN expected
C25_Witness ==
  /\ PracticeAnswered
  /\ last.threshold = Unit
  /\ last.prediction = "UNCERTAIN"
  /\ last.expectedSign = "UNCERTAIN"
  /\ last.confidence = (225 * Unit) \div 1000
  /\ last.feedback = "unclear"

\* --- MediaPipeHandler

\* C26: once stop() has been called (and initialize() not called again), no
\* camera track obtained by the handler is live and no frame is scheduled,
\* also when stop() came while initialize() was awaiting the camera.
C26_StoppedIsQuiet ==
  io.stopped =>
    \A c \in InitializeCalls :
      io.req[c].track # "live" /\ io.req[c].frame # "scheduled"

\* --- learning progress

\* C27: after any sequence of progress requests, completedSigns is at most
\* the number of signs of the model and totalProgress is an integer between
\* 0 and 100.
C27_ProgressBounded ==
  /\ store.completedSigns <= store.signs
  /\ store.totalProgress \in 0..100

\* C28: on a sign, whatever practice_attempt and practice_complete requests
\* (attempts field non-negative) were served, practiceSuccess is at most
\* practiceAttempts and practiceAccuracy is 100 * practiceSuccess /
\* practiceAttempts, within 0..100.
C28_PracticeCounts ==
  \A g \in ProgressSigns :
    LET p == store.signProgress[g]
    IN  /\ p.practiceSuccess * AttemptUnit <= p.practiceAttempts
        /\ p.practiceAccuracy = Accuracy(p.practiceSuccess, p.practiceAttempts)
        /\ p.practiceAccuracy.n >= 0
        /\ p.practiceAccuracy.n <= 100 * p.practiceAccuracy.d

\* --- calculator

BlockOrder == <<"num1", "operator", "num2", "complete">>
BlockRank(block) == CHOOSE i \in 1..Len(BlockOrder) : BlockOrder[i] = block

\* the step was a call of processPrediction that changed calcState
Accepted == last'.op = "processPrediction" /\ store' # store

\* C29: activeBlock stays or advances by one block along num1, operator,
\* num2, complete, and goes back to num1 only on 'clear' or a reset; a
\* digit is accepted only in num1 or num2 and an operator only in the
\* operator block with num1 set; result is non-empty only in block complete.
C29_BlockOrder ==
  /\ [](store.result # "" => store.activeBlock = "complete")
  /\ [][/\ \/ store'.activeBlock = store.activeBlock
            \/ BlockRank(store'.activeBlock) = BlockRank(store.activeBlock) + 1
            \/ /\ store'.activeBlock = "num1"
               /\ \/ last'.op = "resetCalculator"
                  \/ last'.op = "processPrediction" /\ last'.prediction = "clear"
        /\ (Accepted /\ IsNumeric(last'.prediction)) =>
              store.activeBlock \in {"num1", "num2"}
        /\ (Accepted /\ last'.prediction \in Operators) =>
              (store.activeBlock = "operator" /\ store.num1 # "")]_vars

\* 2 / 0 entered: the result is Error in block complete
C29_Witness ==
  /\ store.activeBlock = "complete"
  /\ store.num1 = "2"
  /\ store.operator = "/"
  /\ store.num2 = "0"
  /\ store.result = "Error"

\* --- SettingsManager

TimesCalled(listener) ==
  Cardinality({i \in 1..Len(last.calls) : last.calls[i] = listener})

\* C30: after import returned false, the settings and the persisted entry
\* are those from before the call and no listener was called; after it
\* returned true, the settings are the parsed input and every subscribed
\* listener was called once.
C30_ImportAllOrNothing ==
  last.op = "import" =>
    IF last.result
    THEN /\ store.settings = Parse(last.input)
         /\ \A i \in 1..Len(last.listeners) : TimesCalled(last.listeners[i]) = 1
    ELSE /\ store.settings = last.settings
         /\ store.persisted = last.persisted
         /\ last.calls = <<>>

====
